---- MODULE Spec2Model ----
(***************************************************************************)
(* Form-submission pipeline of the Carlora site: the three route handlers  *)
(* (contact, consultation booking, application), the EmailService they     *)
(* call (address validation, simulation short-circuit, bounded retry) and  *)
(* the process environment the service is configured from.                 *)
(*                                                                         *)
(* Strings are sequences of one-character strings, so that the regular     *)
(* expressions, trim and toLowerCase of the source are computed, not       *)
(* assumed.  A missing field of an object is a field outside its DOMAIN.   *)
(***************************************************************************)
EXTENDS Integers, Sequences, FiniteSets, TLC

VARIABLES
  env,          \* process.env: NODE_ENV, SMTP_HOST, SMTP_USER, SMTP_PASSWORD
  isConfigured, \* EmailService.isConfigured
  transporter,  \* EmailService.transporter is non-null
  serviceLog,   \* what the EmailService logged outside any request
  served,       \* number of requests accepted so far
  limiter,      \* per slot: how rateLimit(request) settled ("none" before)
  pc,           \* per request slot: the await the handler is suspended at
  req,          \* per slot: the request (handler, parsed body, headers, upload)
  response,     \* per slot: the HTTP response returned, status 0 while none
  trace,        \* per slot: the calls made for the request, in program order
  log,          \* per slot: logError / logInfo entries, in program order
  sendCalls,    \* per slot: the options of every emailService.sendEmail call
  retries,      \* per slot: the retries argument of the running sendWithRetry
  results,      \* per slot: outcome of every transporter.sendMail attempt
  timers,       \* per slot: the delay (ms) of every setTimeout of sendWithRetry
  emailSent,    \* per slot: what sendEmail returned ("none" before it returns)
  mailOptions,  \* per slot: the mailOptions sendEmail built (<<>> while none)
  tmpFile,      \* per slot: the uploaded resume file in the tmp directory
  renderCall,   \* a call of EmailTemplate.render: the template and the data
  renderResult  \* what that call returned

vars == <<env, isConfigured, transporter, serviceLog, served, limiter, pc, req, response, trace,
          log, sendCalls, retries, results, timers, emailSent, mailOptions, tmpFile,
          renderCall, renderResult>>

----------------------------------------------------------------------------
(* Bounds of the model. *)

\* Requests accepted in one run of the process.
MaxRequests == 2

\* Properties of the data object of a render call.
MaxEntries == 2

\* Request slots (requests the hosting runtime may hold at once).
Reqs == {"r1", "r2"}

----------------------------------------------------------------------------
(* Characters and strings. *)

UpperSeq == <<"A","B","C","D","E","F","G","H","I","J","K","L","M",
              "N","O","P","Q","R","S","T","U","V","W","X","Y","Z">>
LowerSeq == <<"a","b","c","d","e","f","g","h","i","j","k","l","m",
              "n","o","p","q","r","s","t","u","v","w","x","y","z">>
Upper == {UpperSeq[i] : i \in 1..26}
Lower == {LowerSeq[i] : i \in 1..26}
Digit == {"0","1","2","3","4","5","6","7","8","9"}
AlNum == Upper \cup Lower \cup Digit
\* \s of a JavaScript regular expression, and what String.trim removes
WhiteSpace == {" ", "\t", "\n", "\r"}

\* n copies of the character c
Rep(c, n) == [i \in 1..n |-> c]

\* String.prototype.toLowerCase
ToLowerChar(c) ==
  IF c \in Upper THEN LowerSeq[CHOOSE i \in 1..26 : UpperSeq[i] = c] ELSE c
ToLowerCase(s) == [i \in 1..Len(s) |-> ToLowerChar(s[i])]

\* String.prototype.trim
Trim(s) ==
  LET keep == {i \in 1..Len(s) : s[i] \notin WhiteSpace} IN
  IF keep = {} THEN <<>>
  ELSE LET lo == CHOOSE i \in keep : \A j \in keep : i <= j
           hi == CHOOSE i \in keep : \A j \in keep : j <= i
       IN  SubSeq(s, lo, hi)

\* the positions of character c in s
Positions(s, c) == {i \in 1..Len(s) : s[i] = c}

\* [a-zA-Z0-9](?:[a-zA-Z0-9-]{0,61}[a-zA-Z0-9])?  matches s[lo..hi] exactly
IsLabel(s, lo, hi) ==
  /\ lo <= hi
  /\ hi - lo + 1 <= 63
  /\ s[lo] \in AlNum
  /\ s[hi] \in AlNum
  /\ \A i \in lo..hi : s[i] \in AlNum \cup {"-"}

\* label(?:\.label)*  matches s[lo..hi] exactly: the dots cut it into labels
IsDomain(s, lo, hi) ==
  /\ lo <= hi
  /\ LET dots  == {i \in lo..hi : s[i] = "."}
         cuts  == dots \cup {lo - 1, hi + 1}
         next(i) == CHOOSE j \in cuts : j > i /\ \A k \in cuts : k > i => j <= k
     IN  \A i \in cuts \ {hi + 1} : IsLabel(s, i + 1, next(i) - 1)

\* a value read from an object: String(undefined) is "undefined"
Undefined == <<"u","n","d","e","f","i","n","e","d">>
Get(obj, key) == IF key \in DOMAIN obj THEN obj[key] ELSE Undefined
\* JavaScript truthiness of a string-valued property
Truthy(obj, key) == key \in DOMAIN obj /\ obj[key] # <<>>

\* the character class of the local part, [a-zA-Z0-9.!#$%&'*+/=?^_{|}~-] and
\* the grave accent (left out here: no payload of the model contains one)
LocalChars == AlNum \cup {".","!","#","$","%","&","'","*","+","/","=","?",
                          "^","_","{","|","}","~","-"}

\* emailRegex.test(s): local part, "@", dot-separated domain labels
emailRegex(s) ==
  \E at \in Positions(s, "@") :
     /\ at > 1
     /\ \A i \in 1..(at - 1) : s[i] \in LocalChars
     /\ IsDomain(s, at + 1, Len(s))

\* zod's z.string().email():
\* /^(?!\.)(?!.*\.\.)([A-Z0-9_'+\-\.]*)[A-Z0-9_+-]@([A-Z0-9][A-Z0-9\-]*\.)+[A-Z]{2,}$/i
zodEmail(s) ==
  /\ Len(s) > 0
  /\ s[1] # "."
  /\ \A i \in 1..(Len(s) - 1) : ~(s[i] = "." /\ s[i + 1] = ".")
  /\ \E at \in Positions(s, "@") :
       /\ at > 1
       /\ \A i \in 1..(at - 1) : s[i] \in AlNum \cup {"_", "'", "+", "-", "."}
       /\ s[at - 1] \in AlNum \cup {"_", "+", "-"}
       /\ LET lo    == at + 1
              hi    == Len(s)
              dots  == {i \in lo..hi : s[i] = "."}
              cuts  == dots \cup {lo - 1, hi + 1}
              next(i) == CHOOSE j \in cuts : j > i /\ \A k \in cuts : k > i => j <= k
          IN  /\ dots # {}
              /\ \A i \in cuts \ {hi + 1} :
                   LET a == i + 1
                       b == next(i) - 1
                   IN  IF next(i) = hi + 1
                       THEN b - a + 1 >= 2 /\ \A j \in a..b : s[j] \in Upper \cup Lower
                       ELSE /\ a <= b
                            /\ s[a] \in AlNum
                            /\ \A j \in a..b : s[j] \in AlNum \cup {"-"}

\* /^[a-zA-Z\s]*$/
nameRegex(s) == \A i \in 1..Len(s) : s[i] \in Upper \cup Lower \cup WhiteSpace

\* /\+?[1-9]\d{1,14}$/  (not anchored at the start)
phoneRegex(s) ==
  \E k \in 1..14 :
     /\ Len(s) >= k + 1
     /\ s[Len(s) - k] \in Digit \ {"0"}
     /\ \A i \in (Len(s) - k + 1)..Len(s) : s[i] \in Digit

\* zod's z.string().datetime(): YYYY-MM-DDTHH:MM:SS(.f+)?Z
zodDatetime(s) ==
  /\ Len(s) >= 20
  /\ \A i \in {1,2,3,4,6,7,9,10,12,13,15,16,18,19} : s[i] \in Digit
  /\ s[5] = "-" /\ s[8] = "-" /\ s[11] = "T" /\ s[14] = ":" /\ s[17] = ":"
  /\ s[Len(s)] = "Z"
  /\ Len(s) > 20 => /\ s[20] = "."
                    /\ Len(s) > 21
                    /\ \A i \in 21..(Len(s) - 1) : s[i] \in Digit

----------------------------------------------------------------------------
(* The zod schemas of the three handlers.  Each yields safeParse's result:  *)
(* success, the output data (transforms applied, unknown keys stripped) and *)
(* the paths of the failing fields.                                         *)

\* honeypot: z.string().max(0).optional()
honeypotOk(data) == "honeypot" \in DOMAIN data => Len(data.honeypot) <= 0

\* z.string().min(n) on a required field
minOk(data, f, n) == f \in DOMAIN data /\ Len(data[f]) >= n

\* z.enum(values) on a required field
enumOk(data, f, values) == f \in DOMAIN data /\ data[f] \in values

industryEnum == {"Technology", "Finance", "Healthcare", "Retail",
                 "Manufacturing", "Other"}
companySizeEnum == {"1-10", "11-50", "51-200", "201-500", "500+"}
consultationTypeEnum == {"Business Strategy", "Digital Transformation",
                         "Performance Optimization", "Market Analysis",
                         "Innovation Consulting"}

SafeParse(bad, out) == [success |-> bad = {}, errors |-> bad, data |-> out]

consultationSchema(data) ==
  LET keys == {"name", "email", "company", "industry", "companySize",
               "consultationType", "message", "preferredDate", "honeypot"}
      bad  == {f \in keys :
                 \/ f = "name" /\ ~minOk(data, f, 2)
                 \/ f = "email" /\ ~(f \in DOMAIN data /\ zodEmail(data[f]))
                 \/ f = "company" /\ ~minOk(data, f, 2)
                 \/ f = "industry" /\ ~enumOk(data, f, industryEnum)
                 \/ f = "companySize" /\ ~enumOk(data, f, companySizeEnum)
                 \/ f = "consultationType" /\ ~enumOk(data, f, consultationTypeEnum)
                 \/ f = "message" /\ ~minOk(data, f, 10)
                 \/ f = "preferredDate" /\ ~minOk(data, f, 1)
                 \/ f = "honeypot" /\ ~honeypotOk(data)}
      out  == [f \in DOMAIN data \cap keys |-> data[f]]
  IN  SafeParse(bad, out)

contactSchema(data) ==
  LET keys == {"name", "email", "message", "timestamp", "honeypot"}
      bad  == {f \in keys :
                 \/ f = "name" /\ ~(minOk(data, f, 2) /\ nameRegex(data[f]))
                 \/ f = "email" /\ ~(/\ f \in DOMAIN data
                                     /\ zodEmail(data[f])
                                     /\ emailRegex(data[f]))
                 \/ f = "message" /\ ~(minOk(data, f, 10) /\ Len(data[f]) <= 1000)
                 \/ f = "timestamp" /\ f \in DOMAIN data /\ ~zodDatetime(data[f])
                 \/ f = "honeypot" /\ ~honeypotOk(data)}
      out  == [f \in DOMAIN data \cap keys |->
                 CASE f = "name"    -> Trim(data[f])
                   [] f = "email"   -> Trim(ToLowerCase(data[f]))
                   [] f = "message" -> Trim(data[f])
                   [] OTHER         -> data[f]]
  IN  SafeParse(bad, out)

applicationSchema(data) ==
  LET keys == {"name", "email", "phone", "message", "honeypot"}
      bad  == {f \in keys :
                 \/ f = "name" /\ ~minOk(data, f, 2)
                 \/ f = "email" /\ ~(f \in DOMAIN data /\ zodEmail(data[f]))
                 \/ f = "phone" /\ ~(f \in DOMAIN data /\ phoneRegex(data[f]))
                 \/ f = "message" /\ ~minOk(data, f, 10)
                 \/ f = "honeypot" /\ ~honeypotOk(data)}
      out  == [f \in DOMAIN data \cap keys |-> data[f]]
  IN  SafeParse(bad, out)

\* the schema each handler parses its body with
Schema(kind, data) ==
  CASE kind = "contact"      -> contactSchema(data)
    [] kind = "consultation" -> consultationSchema(data)
    [] kind = "application"  -> applicationSchema(data)

----------------------------------------------------------------------------
(* The process environment and the EmailService singleton. *)

\* (mutant) one retry fewer
maxRetries_Two == 3 - 1

maxRetries == 3

retryDelay == 1000

NodeEnvs == {"development", "production", "test"}

\* SMTP_USER as configured: a mailbox address, or an account name that is
\* not an address
UserAddress == <<"a","@","b",".","c","o">>
UserAccount == <<"s","m","t","p">>
SmtpUsers == {UserAddress, UserAccount}

\* every process.env the model starts from; an unset variable is outside
\* the DOMAIN
Envs ==
  {[k \in {"NODE_ENV"} \cup opt |->
      CASE k = "NODE_ENV"      -> n
        [] k = "SMTP_HOST"     -> <<"h">>
        [] k = "SMTP_USER"     -> u
        [] k = "SMTP_PASSWORD" -> <<"p">>] :
     n \in NodeEnvs,
     opt \in SUBSET {"SMTP_HOST", "SMTP_USER", "SMTP_PASSWORD"},
     u \in SmtpUsers}

\* the credential test of initializeTransporter
MissingCredentials(e) ==
  ~Truthy(e, "SMTP_HOST") \/ ~Truthy(e, "SMTP_USER") \/ ~Truthy(e, "SMTP_PASSWORD")

\* (mutant) isConfigured is set before createTransport and the catch block
\* does not reset it
initializeTransporter_ConfiguredFirst(e, created) ==
  IF MissingCredentials(e)
  THEN [isConfigured |-> FALSE, transporter |-> FALSE,
        log |-> <<[level |-> "warn", context |-> "console",
                   message |-> "Email service not configured: Missing SMTP credentials",
                   attempt |-> 0, meta |-> "none"]>>]
  ELSE [isConfigured |-> TRUE, transporter |-> created, log |-> <<>>]

\* EmailService.initializeTransporter, run by the constructor on the fields'
\* initial values (transporter null, isConfigured false); `created` tells
\* whether nodemailer.createTransport returned (TRUE) or threw (FALSE)
initializeTransporter(e, created) ==
  IF MissingCredentials(e)
  THEN [isConfigured |-> FALSE, transporter |-> FALSE,
        log |-> <<[level |-> "warn", context |-> "console",
                   message |-> "Email service not configured: Missing SMTP credentials",
                   attempt |-> 0, meta |-> "none"]>>]
  ELSE IF created
  THEN [isConfigured |-> TRUE, transporter |-> TRUE, log |-> <<>>]
  ELSE [isConfigured |-> FALSE, transporter |-> FALSE,
        log |-> <<[level |-> "error", context |-> "Email Service Initialization Error",
                   message |-> "", attempt |-> 0, meta |-> "none"]>>]

\* EmailService.validateEmail / validateEmails; `to` is the recipient list
\* (a single recipient is made a one-element list)
validateEmail(email) == emailRegex(email)
validateEmails(to) == \A i \in 1..Len(to) : validateEmail(to[i])

----------------------------------------------------------------------------
(* Requests.                                                                *)

Kinds == {"contact", "consultation", "application"}

NameOk     == <<"A","l">>
NameBlank  == <<" "," ">>
NamePadded == <<" ","A","l">>
EmailOk    == <<"a","@","b",".","c","o">>
EmailUpper == <<"A","@","b",".","c","o">>
EmailPadded == <<" ","a","@","b",".","c","o">>
MsgOk      == Rep("m", 10)
MsgBlank   == Rep(" ", 10)
ClientTime == <<"2","0","2","4","-","0","1","-","0","1","T",
                "0","0",":","0","0",":","0","0","Z">>
\* new Date().toISOString() at the server
ServerTime == <<"2","0","2","5","-","0","6","-","0","1","T",
                "1","2",":","0","0",":","0","0","Z">>
ClientIP   == <<"1",".","2",".","3",".","4">>
Agent      == <<"M","o","z">>
Unknown    == <<"u","n","k","n","o","w","n">>
Null       == <<"n","u","l","l">>

Override(base, f, v) == [g \in DOMAIN base \cup {f} |-> IF g = f THEN v ELSE base[g]]
Remove(base, f) == [g \in DOMAIN base \ {f} |-> base[g]]

\* each body with the honeypot field absent, empty and filled
WithHoneypot(bodies) ==
  bodies \cup {Override(b, "honeypot", <<>>) : b \in bodies}
         \cup {Override(b, "honeypot", <<"x">>) : b \in bodies}

contactBase == [name |-> NameOk, email |-> EmailOk, message |-> MsgOk]
ContactBodies ==
  WithHoneypot(
    {contactBase, Remove(contactBase, "name")}
    \cup {Override(contactBase, "name", v) :
            v \in {<<"A">>, <<"A","1">>, NameBlank, NamePadded}}
    \cup {Override(contactBase, "email", v) :
            v \in {EmailUpper, EmailPadded, <<"a","@","b">>, <<"a","b">>}}
    \cup {Override(contactBase, "message", v) :
            v \in {Rep("m", 9), MsgBlank}}
    \cup {Override(contactBase, "timestamp", v) :
            v \in {ClientTime, <<"n","o","w">>}})

consultationBase ==
  [name |-> NameOk, email |-> EmailOk, company |-> <<"C","o">>,
   industry |-> "Technology", companySize |-> "1-10",
   consultationType |-> "Market Analysis", message |-> MsgOk,
   preferredDate |-> <<"2","0","2","5">>]
ConsultationBodies ==
  WithHoneypot(
    {consultationBase,
     Remove(consultationBase, "companySize"),
     Override(consultationBase, "name", <<"A">>),
     Override(consultationBase, "email", <<"a","@","b">>),
     Override(consultationBase, "industry", "Space"),
     Override(consultationBase, "message", Rep("m", 9)),
     Override(consultationBase, "preferredDate", <<>>)})

applicationBase ==
  [name |-> NameOk, email |-> EmailOk, phone |-> <<"+","1","2","3">>,
   message |-> MsgOk]
ApplicationBodies ==
  WithHoneypot(
    {applicationBase,
     Remove(applicationBase, "email"),
     Override(applicationBase, "name", <<"A">>),
     Override(applicationBase, "phone", <<"0">>),
     Override(applicationBase, "phone", <<"x","1","2">>),
     Override(applicationBase, "message", Rep("m", 9))})

Bodies(kind) ==
  CASE kind = "contact"      -> ContactBodies
    [] kind = "consultation" -> ConsultationBodies
    [] kind = "application"  -> ApplicationBodies

\* request headers: x-forwarded-for and user-agent, both or none
Headers == [ip |-> ClientIP, agent |-> Agent]
NoHeaders == <<>>

Request(kind, data, headers, upload) ==
  [kind |-> kind, body |-> [ok |-> TRUE, data |-> data], headers |-> headers,
   upload |-> upload]

\* The requests of the model: every body of every form; a body that does not
\* parse; the valid body without headers; and for the application form the
\* resume part of the multipart body: none, a PDF, a part formidable's filter
\* drops, a PDF over maxFileSize.
Requests ==
  UNION {{Request(k, d, Headers, "none") : d \in Bodies(k)} : k \in Kinds}
  \cup {[kind |-> k, body |-> [ok |-> FALSE, data |-> <<>>],
         headers |-> Headers, upload |-> "none"] : k \in Kinds}
  \cup UNION {{Request(k, d, NoHeaders, "none") :
                  d \in {b \in Bodies(k) : "honeypot" \notin DOMAIN b}} :
                k \in Kinds}
  \cup {Request("application", d, Headers, "pdf") : d \in ApplicationBodies}
  \cup {Request("application", applicationBase, Headers, u) :
          u \in {"notpdf", "toolarge"}}
  \cup {Request("application", Override(applicationBase, "honeypot", <<"x">>),
                 Headers, "toolarge")}

\* diagnosticInfo as captured at request entry
DiagnosticInfo(headers) ==
  [clientIP  |-> IF Truthy(headers, "ip") THEN headers.ip ELSE Unknown,
   userAgent |-> IF "agent" \in DOMAIN headers THEN headers.agent ELSE Null]

NoRequest == [kind |-> "none"]
NoResponse == [status |-> 0]

----------------------------------------------------------------------------
(* Log entries, responses and the effect of a run of synchronous code.      *)

LogEntry(level, context, message, attempt, meta) ==
  [level |-> level, context |-> context, message |-> message,
   attempt |-> attempt, meta |-> meta]

\* logError(context, error, metadata) and logInfo(context, message, metadata)
logError(context, meta) == LogEntry("error", context, "", 0, meta)
logInfo(context, message, attempt, meta) ==
  LogEntry("info", context, message, attempt, meta)

TooManyRequests == "Too many requests. Please try again in a few minutes."
CheckYourInput == "Please check your input and try again"
Rejected == "Form submission rejected"
TechnicalDifficulties ==
  "We're experiencing technical difficulties. Please try again later or contact support directly."

ErrorContext(kind) ==
  CASE kind = "contact"      -> "Contact Form Error"
    [] kind = "consultation" -> "Consultation Booking Error"
    [] kind = "application"  -> "Application Form Error"

ValidationContext(kind) ==
  CASE kind = "contact"      -> "Form Validation Failed"
    [] kind = "consultation" -> "Consultation Booking Validation Failed"
    [] kind = "application"  -> "Application Form Validation Failed"

SuccessContext(kind) ==
  CASE kind = "contact"      -> "Form Submission Success"
    [] kind = "consultation" -> "Consultation Booking Success"
    [] kind = "application"  -> "Application Form Success"

SuccessBody(kind) ==
  CASE kind = "contact"      -> [message |-> "Message sent successfully"]
    [] kind = "consultation" ->
         [success |-> TRUE,
          message |-> "Consultation request submitted successfully"]
    [] kind = "application"  -> [message |-> "Application submitted successfully"]

\* What a run of synchronous code leaves behind: the calls and log entries
\* it added, the await it stopped at (pc), what sendEmail returned if it
\* returned, the response if one was produced, and the retries argument.
Effect(p, t, l, ret, resp, n) ==
  [pc |-> p, trace |-> t, log |-> l, ret |-> ret, response |-> resp, retries |-> n]

\* first the calls and log entries of pre, then the effect e
Then(preTrace, preLog, e) ==
  [e EXCEPT !.trace = preTrace \o @, !.log = preLog \o @]

----------------------------------------------------------------------------
(* The route handlers (the code between two awaits).                        *)

\* (mutant) the handler goes on to parse the body of a rejected request
RateLimited_Ignored(rq) ==
  Effect("parse", <<"parse">>, <<logError("Rate Limit Exceeded", "diagnosticInfo")>>,
         "none", NoResponse, 0)

\* limiter.success is false: log, 429
RateLimited(rq) ==
  Effect("done", <<>>, <<logError("Rate Limit Exceeded", "diagnosticInfo")>>,
         "none", [status |-> 429, body |-> [error |-> TooManyRequests]], 0)

\* (mutant) the catch block reports what failed
HandlerCatch_Leaks(rq, ret) ==
  Effect("done", <<>>, <<logError(ErrorContext(rq.kind), "diagnosticInfo")>>,
         ret, [status |-> 500,
               body |-> [error |-> TechnicalDifficulties, details |-> ret]], 0)

\* (mutant) the catch block answers without logging
HandlerCatch_NoLog(rq, ret) ==
  Effect("done", <<>>, <<>>,
         ret, [status |-> 500, body |-> [error |-> TechnicalDifficulties]], 0)

\* the handler's catch block: log the error, 500 with the fixed message
HandlerCatch(rq, ret) ==
  Effect("done", <<>>, <<logError(ErrorContext(rq.kind), "diagnosticInfo")>>,
         ret, [status |-> 500, body |-> [error |-> TechnicalDifficulties]], 0)

\* the handler's last lines: logInfo, 200
HandlerSuccess(rq, ret) ==
  Effect("done", <<>>,
         <<logInfo(SuccessContext(rq.kind), SuccessBody(rq.kind).message, 0,
                   "diagnosticInfo")>>,
         ret, [status |-> 200, body |-> SuccessBody(rq.kind)], 0)

\* what testConnection returns: {success, message}
TestConnectFailed == "Failed to connect to email server"
TestWorking == "Email system is working correctly"
TestSendFailed == "Failed to send test email"
TestResult(ret, success, message) ==
  Effect("done", <<>>, <<>>, ret,
         [status |-> 0, success |-> success, message |-> message], 0)

\* files.resume is set: formidable kept the part
HasResume(rq) == rq.upload = "pdf"

\* (mutant) the uploaded file is cleared before the handler looks at what
\* sendEmail returned
AfterSendEmail_ClearsFirst(rq, ret) ==
  IF rq.kind = "direct"
  THEN Effect("done", <<>>, <<>>, ret, NoResponse, 0)
  ELSE IF rq.kind = "test"
  THEN TestResult(ret, ret = "true",
                  IF ret = "true" THEN TestWorking ELSE TestSendFailed)
  ELSE IF rq.kind = "application" /\ HasResume(rq)
  THEN Effect("cleanup", <<"writeFile">>, <<>>, ret, NoResponse, 0)
  ELSE IF ret = "false"
  THEN HandlerCatch(rq, ret)
  ELSE HandlerSuccess(rq, ret)

\* (mutant) the handler does not look at what sendEmail returned
AfterSendEmail_IgnoresFalse(rq, ret) ==
  IF rq.kind = "direct"
  THEN Effect("done", <<>>, <<>>, ret, NoResponse, 0)
  ELSE IF rq.kind = "test"
  THEN TestResult(ret, ret = "true",
                  IF ret = "true" THEN TestWorking ELSE TestSendFailed)
  ELSE IF rq.kind = "application" /\ HasResume(rq)
  THEN Effect("cleanup", <<"writeFile">>, <<>>, ret, NoResponse, 0)
  ELSE HandlerSuccess(rq, ret)

\* the caller's code after `await emailService.sendEmail(...)` returned ret
AfterSendEmail(rq, ret) ==
  IF rq.kind = "direct"
  THEN Effect("done", <<>>, <<>>, ret, NoResponse, 0)
  ELSE IF rq.kind = "test"
  THEN TestResult(ret, ret = "true",
                  IF ret = "true" THEN TestWorking ELSE TestSendFailed)
  ELSE IF ret = "false"
  THEN HandlerCatch(rq, ret)
  ELSE IF rq.kind = "application" /\ HasResume(rq)
  THEN Effect("cleanup", <<"writeFile">>, <<>>, ret, NoResponse, 0)
  ELSE HandlerSuccess(rq, ret)

\* templateData of each handler, from the validated data
templateData(rq, validated) ==
  LET diag == DiagnosticInfo(rq.headers)
      meta == [timestamp |-> ServerTime, ip |-> diag.clientIP,
               userAgent |-> diag.userAgent]
      own  == CASE rq.kind = "contact"      -> {"name", "email", "message"}
                [] rq.kind = "consultation" -> DOMAIN validated
                [] rq.kind = "application"  -> {"name", "email", "phone", "message"}
  IN  [f \in own \cup DOMAIN meta |->
         IF f \in DOMAIN meta THEN meta[f] ELSE Get(validated, f)]

\* the options each handler passes to emailService.sendEmail
HandlerOptions(rq, validated, e) ==
  [to           |-> <<Get(e, "SMTP_USER")>>,
   template     |-> rq.kind,
   templateData |-> templateData(rq, validated),
   attachments  |-> IF rq.kind = "application" /\ HasResume(rq)
                    THEN <<"resume">> ELSE <<>>]

----------------------------------------------------------------------------
(* EmailTemplate.render and the templates.                                  *)

\* the characters of the property names used as template data keys
KeyChars(k) ==
  CASE k = "name"      -> <<"n","a","m","e">>
    [] k = "email"     -> <<"e","m","a","i","l">>
    [] k = "phone"     -> <<"p","h","o","n","e">>
    [] k = "company"   -> <<"c","o","m","p","a","n","y">>
    [] k = "industry"  -> <<"i","n","d","u","s","t","r","y">>
    [] k = "companySize" -> <<"c","o","m","p","a","n","y","S","i","z","e">>
    [] k = "consultationType" ->
         <<"c","o","n","s","u","l","t","a","t","i","o","n","T","y","p","e">>
    [] k = "message"   -> <<"m","e","s","s","a","g","e">>
    [] k = "preferredDate" ->
         <<"p","r","e","f","e","r","r","e","d","D","a","t","e">>
    [] k = "honeypot"  -> <<"h","o","n","e","y","p","o","t">>
    [] k = "subject"   -> <<"s","u","b","j","e","c","t">>
    [] k = "timestamp" -> <<"t","i","m","e","s","t","a","m","p">>
    [] k = "ip"        -> <<"i","p">>
    [] k = "userAgent" -> <<"u","s","e","r","A","g","e","n","t">>
    [] k = "n.me"      -> <<"n",".","m","e">>
    [] k = "a("        -> <<"a","(">>

\* the property names of an object literal in creation order (the order of
\* Object.entries); the handlers' literals and the zod shapes all follow it
PropertyOrder ==
  <<"name", "n.me", "a(", "email", "phone", "company", "industry", "companySize",
    "consultationType", "message", "preferredDate", "honeypot", "subject",
    "timestamp", "ip", "userAgent">>

\* the properties whose values are members of a z.enum
EnumKeys == {"industry", "companySize", "consultationType"}

\* Object.entries(data) as a sequence of <<key characters, String(value)>>;
\* an enum member is kept as one token (it holds no brace and no dollar sign)
ObjectEntries(data) ==
  LET keys == SelectSeq(PropertyOrder, LAMBDA k : k \in DOMAIN data)
  IN  [i \in 1..Len(keys) |->
         <<KeyChars(keys[i]),
           IF keys[i] \in EnumKeys THEN <<data[keys[i]]>> ELSE data[keys[i]]>>]

\* the source `{{key}}` handed to new RegExp
PlaceholderSource(key) == <<"{","{">> \o key \o <<"}","}">>

\* new RegExp(source, 'g') throws a SyntaxError: an unterminated group or
\* class, an unmatched parenthesis
RegExpThrows(source) == \E i \in 1..Len(source) : source[i] \in {"(", ")", "["}

\* the pattern matches s at position i.  Without the u flag a brace that
\* starts no quantifier is a literal; "." matches any character but a line
\* terminator; letters match themselves.  (Sources of the model hold no
\* other metacharacter and no digit.)
MatchAt(s, i, pattern) ==
  /\ i + Len(pattern) - 1 <= Len(s)
  /\ \A j \in 1..Len(pattern) :
       IF pattern[j] = "."
       THEN s[i + j - 1] \notin {"\n", "\r"}
       ELSE s[i + j - 1] = pattern[j]

\* GetSubstitution: the replacement string with its dollar patterns expanded
\* for a match of length n at position i of s: $$ is a dollar sign, $& the
\* matched text, $' the text after the match ($ and a grave accent, the
\* text before it, is left out: no value of the model holds that pair);
\* any other dollar sign stands for itself, there being no capture group
RECURSIVE GetSubstitution(_, _, _, _, _)
GetSubstitution(value, k, s, i, n) ==
  IF k > Len(value) THEN <<>>
  ELSE IF value[k] = "$" /\ k < Len(value) /\ value[k + 1] \in {"$", "&", "'"}
  THEN (CASE value[k + 1] = "$" -> <<"$">>
          [] value[k + 1] = "&" -> SubSeq(s, i, i + n - 1)
          [] value[k + 1] = "'" -> SubSeq(s, i + n, Len(s)))
       \o GetSubstitution(value, k + 2, s, i, n)
  ELSE <<value[k]>> \o GetSubstitution(value, k + 1, s, i, n)

\* s.replace(regex, value) with the g flag, from position i on: matches are
\* taken left to right and do not overlap, the inserted text is not rescanned
RECURSIVE Replace(_, _, _, _)
Replace(s, i, pattern, value) ==
  LET starts == {j \in i..Len(s) : MatchAt(s, j, pattern)} IN
  IF starts = {} THEN SubSeq(s, i, Len(s))
  ELSE LET m == CHOOSE j \in starts : \A k \in starts : j <= k
       IN  SubSeq(s, i, m - 1)
           \o GetSubstitution(value, 1, s, m, Len(pattern))
           \o Replace(s, m + Len(pattern), pattern, value)

\* the forEach of render over entries[k..]: each key is replaced in the
\* result of the keys before it
RECURSIVE RenderFrom(_, _, _)
RenderFrom(source, entries, k) ==
  IF k > Len(entries) THEN source
  ELSE RenderFrom(Replace(source, 1, PlaceholderSource(entries[k][1]), entries[k][2]),
                  entries, k + 1)

\* EmailTemplate.render(data), data given as its entries; threw tells that
\* a key made new RegExp throw (the keys before it were replaced by then,
\* but no result is returned)
render(template, entries) ==
  IF \E k \in 1..Len(entries) : RegExpThrows(PlaceholderSource(entries[k][1]))
  THEN [threw |-> TRUE, html |-> <<>>, text |-> <<>>]
  ELSE [threw |-> FALSE,
        html  |-> RenderFrom(template.htmlTemplate, entries, 1),
        text  |-> RenderFrom(template.textTemplate, entries, 1)]

\* an element of the HTML source, and a line of the text source
Element(content) == <<"<","p",">">> \o content \o <<"<","/","p",">">>
Line(content) == content \o <<"\n">>

\* a template with one element of the HTML source and one line of the text
\* source for each placeholder
FieldsTemplate(keys) ==
  LET html[i \in 0..Len(keys)] ==
        IF i = 0 THEN <<>>
        ELSE html[i - 1] \o Element(PlaceholderSource(KeyChars(keys[i])))
      text[i \in 0..Len(keys)] ==
        IF i = 0 THEN <<>>
        ELSE text[i - 1] \o Line(PlaceholderSource(KeyChars(keys[i])))
  IN  [htmlTemplate |-> html[Len(keys)], textTemplate |-> text[Len(keys)]]

\* contactFormTemplate, reduced to its placeholders in their elements and
\* lines (style sheet, headings and labels are left out)
contactFormTemplate ==
  FieldsTemplate(<<"name", "email", "subject", "message", "timestamp", "ip",
                   "userAgent">>)

\* consultationBookingTemplate and applicationFormTemplate: one placeholder
\* for each field of the template data
consultationBookingTemplate ==
  FieldsTemplate(<<"name", "email", "company", "industry", "companySize",
                   "consultationType", "message", "preferredDate",
                   "timestamp", "ip", "userAgent">>)

applicationFormTemplate ==
  FieldsTemplate(<<"name", "email", "phone", "message", "timestamp", "ip",
                   "userAgent">>)

\* the template each handler passes
Template(kind) ==
  CASE kind = "contact"      -> contactFormTemplate
    [] kind = "consultation" -> consultationBookingTemplate
    [] kind = "application"  -> applicationFormTemplate

\* sanitizeHtml(html): the result of DOMPurify.sanitize under the fixed
\* configuration, kept as the application of the library to its argument
sanitizeHtml(html) == [sanitized |-> TRUE, source |-> html]

----------------------------------------------------------------------------
(* EmailService.sendEmail and sendWithRetry.                                *)

\* the errors thrown inside sendEmail's try block
InvalidAddress == "Invalid email address(es)"
NotInitialized == "Email transporter not initialized"
TransportError == "transporter.sendMail rejected"
SyntaxError == "Invalid regular expression"
PurifyError == "DOMPurify.sanitize threw"

\* (mutant) the catch block returns false without logging
SendEmailCatch_Silent(rq, error) == AfterSendEmail(rq, "false")

\* sendEmail's catch block: log the error, return false
SendEmailCatch(rq, error) ==
  Then(<<>>, <<[logError("Email Sending Error", "mail") EXCEPT !.message = error]>>,
       AfterSendEmail(rq, "false"))

\* (mutant) a single retry: the second failure is thrown
RetryOrThrow_Once(rq, n, error) ==
  IF n < 1
  THEN [timer |-> retryDelay]
       @@ Effect("delay", <<"setTimeout">>,
                 <<logInfo("Email Service", "Retrying email send", n + 1, "none")>>,
                 "none", NoResponse, n)
  ELSE SendEmailCatch(rq, error)

\* (mutant) the delay grows with the attempt number
RetryOrThrow_Backoff(rq, n, error) ==
  IF n < maxRetries
  THEN [timer |-> retryDelay * (n + 1)]
       @@ Effect("delay", <<"setTimeout">>,
                 <<logInfo("Email Service", "Retrying email send", n + 1, "none")>>,
                 "none", NoResponse, n)
  ELSE SendEmailCatch(rq, error)

\* sendWithRetry's catch block with retries = n
RetryOrThrow(rq, n, error) ==
  IF n < maxRetries
  THEN [timer |-> retryDelay]
       @@ Effect("delay", <<"setTimeout">>,
                 <<logInfo("Email Service", "Retrying email send", n + 1, "none")>>,
                 "none", NoResponse, n)
  ELSE SendEmailCatch(rq, error)

\* sendWithRetry(mailOptions, n) up to its await of transporter.sendMail
sendWithRetry(rq, n, hasTransporter) ==
  IF ~hasTransporter
  THEN RetryOrThrow(rq, n, NotInitialized)
  ELSE Effect("sendMail", <<"sendMail">>, <<>>, "none", NoResponse, n)

\* (mutant) an unconfigured service simulates, development alone does not
Simulates_UnconfiguredOnly(e, configured) == ~configured

\* (mutant) an unconfigured service simulates outside production only
Simulates_OutsideProduction(e, configured) ==
  e.NODE_ENV = "development" \/ (~configured /\ e.NODE_ENV # "production")

\* the simulation short-circuit of sendEmail
Simulates(e, configured) == e.NODE_ENV = "development" \/ ~configured

\* to.join(',') of the recipient list
RECURSIVE Join(_)
Join(to) ==
  IF Len(to) = 0 THEN <<>>
  ELSE IF Len(to) = 1 THEN to[1]
  ELSE to[1] \o <<",">> \o Join(Tail(to))

\* html and text as sendEmail takes them: rendered from the template when a
\* template and template data are given, the options' own otherwise
Bodies_Of(options) ==
  IF "template" \in DOMAIN options /\ "templateData" \in DOMAIN options
  THEN LET rendered == render(Template(options.template),
                              ObjectEntries(options.templateData))
       IN  [threw |-> rendered.threw, templated |-> TRUE,
            raw |-> [html |-> rendered.html, text |-> rendered.text]]
  ELSE [threw |-> FALSE, templated |-> FALSE,
        raw |-> [f \in DOMAIN options \cap {"html", "text"} |-> options[f]]]

\* the mailOptions object of sendEmail; an undefined property is left out
MailOptions(options, html, text) ==
  [f \in {"to"} \cup (DOMAIN options \cap {"attachments"})
          \cup DOMAIN html \cup DOMAIN text |->
     CASE f = "to"   -> Join(options.to)
       [] f = "html" -> html.html
       [] f = "text" -> text.text
       [] OTHER      -> options[f]]

\* (mutant) the directly supplied html is sanitized, then the rendered body
\* replaces it unsanitized
PrepareAndSend_SanitizeFirst(rq, options, hasTransporter, purify) ==
  LET bodies == Bodies_Of(options)
      raw    == bodies.raw
      html   == IF "html" \in DOMAIN raw
                THEN [html |-> IF Truthy(options, "html") /\ ~bodies.templated
                               THEN sanitizeHtml(raw.html)
                               ELSE [sanitized |-> FALSE, source |-> raw.html]]
                ELSE <<>>
      text   == [f \in DOMAIN raw \cap {"text"} |-> raw[f]]
  IN  Then(<<"sanitizeHtml", "render">>, <<>>,
           [mail |-> MailOptions(options, html, text)]
             @@ sendWithRetry(rq, 0, hasTransporter))

\* sendEmail from "Apply template if provided" to its await of sendWithRetry;
\* purify tells whether DOMPurify.sanitize returns or throws
PrepareAndSend(rq, options, hasTransporter, purify) ==
  LET bodies    == Bodies_Of(options)
      raw       == bodies.raw
      sanitizes == Truthy(raw, "html")
      html      == IF "html" \in DOMAIN raw
                   THEN [html |-> IF sanitizes THEN sanitizeHtml(raw.html)
                                  ELSE [sanitized |-> FALSE, source |-> raw.html]]
                   ELSE <<>>
      text      == [f \in DOMAIN raw \cap {"text"} |-> raw[f]]
      calls     == (IF bodies.templated THEN <<"render">> ELSE <<>>)
  IN  IF bodies.threw
      THEN Then(calls, <<>>, SendEmailCatch(rq, SyntaxError))
      ELSE IF sanitizes /\ purify = "throws"
      THEN Then(calls \o <<"sanitizeHtml">>, <<>>, SendEmailCatch(rq, PurifyError))
      ELSE Then(calls \o (IF sanitizes THEN <<"sanitizeHtml">> ELSE <<>>), <<>>,
                [mail |-> MailOptions(options, html, text)]
                  @@ sendWithRetry(rq, 0, hasTransporter))

\* (mutant) the simulation short-circuit comes before the address check
sendEmail_SimulatesFirst(rq, options, e, configured, hasTransporter, purify) ==
  IF Simulates(e, configured)
  THEN Then(<<"sendEmail", "simulate">>, <<>>, AfterSendEmail(rq, "true"))
  ELSE IF ~validateEmails(options.to)
  THEN Then(<<"sendEmail", "validateEmails">>, <<>>,
            SendEmailCatch(rq, InvalidAddress))
  ELSE Then(<<"sendEmail", "validateEmails">>, <<>>,
            PrepareAndSend(rq, options, hasTransporter, purify))

\* sendEmail(options) up to its first await
sendEmail(rq, options, e, configured, hasTransporter, purify) ==
  IF ~validateEmails(options.to)
  THEN Then(<<"sendEmail", "validateEmails">>, <<>>,
            SendEmailCatch(rq, InvalidAddress))
  ELSE IF Simulates(e, configured)
  THEN Then(<<"sendEmail", "validateEmails", "simulate">>, <<>>,
            AfterSendEmail(rq, "true"))
  ELSE Then(<<"sendEmail", "validateEmails">>, <<>>,
            PrepareAndSend(rq, options, hasTransporter, purify))

\* the canned message of testConnection
TestOptions(e) ==
  [to   |-> <<Get(e, "SMTP_USER")>>,
   text |-> <<"t","e","s","t">>,
   html |-> Element(<<"t","e","s","t">>)]

\* (mutant) the test message is sent whatever verifyConnection returned
AfterVerify_SendsAnyway(rq, isConnected, e, configured, hasTransporter, purify) ==
  sendEmail(rq, TestOptions(e), e, configured, hasTransporter, purify)

\* testConnection after `await this.verifyConnection()` returned isConnected
AfterVerify(rq, isConnected, e, configured, hasTransporter, purify) ==
  IF ~isConnected
  THEN TestResult("none", FALSE, TestConnectFailed)
  ELSE sendEmail(rq, TestOptions(e), e, configured, hasTransporter, purify)

\* (mutant) the result of safeParse is not checked; the honeypot check stays
HandleBody_NoValidation(rq, e, configured, hasTransporter, purify) ==
  LET parsed == Schema(rq.kind, rq.body.data) IN
  IF Truthy(parsed.data, "honeypot")
  THEN Effect("done", <<"safeParse", "honeypot">>,
              <<logError("Honeypot Triggered", "diagnosticInfo")>>,
              "none", [status |-> 400, body |-> [error |-> Rejected]], 0)
  ELSE Then(<<"safeParse", "honeypot">>, <<>>,
            sendEmail(rq, HandlerOptions(rq, parsed.data, e), e, configured,
                      hasTransporter, purify))

\* (mutant) neither the result of safeParse nor the honeypot is checked
HandleBody_NoChecks(rq, e, configured, hasTransporter, purify) ==
  Then(<<"safeParse", "honeypot">>, <<>>,
       sendEmail(rq, HandlerOptions(rq, Schema(rq.kind, rq.body.data).data, e),
                 e, configured, hasTransporter, purify))

\* the handler from the parsed body to its next await or its response
HandleBody(rq, e, configured, hasTransporter, purify) ==
  LET parsed == Schema(rq.kind, rq.body.data) IN
  IF ~parsed.success
  THEN Effect("done", <<"safeParse">>,
              <<logError(ValidationContext(rq.kind), "validationErrors")>>,
              "none",
              [status |-> 400,
               body |-> [error |-> CheckYourInput, details |-> parsed.errors]],
              0)
  ELSE IF Truthy(parsed.data, "honeypot")
  THEN Effect("done", <<"safeParse", "honeypot">>,
              <<logError("Honeypot Triggered", "diagnosticInfo")>>,
              "none", [status |-> 400, body |-> [error |-> Rejected]], 0)
  ELSE Then(<<"safeParse", "honeypot">>, <<>>,
            sendEmail(rq, HandlerOptions(rq, parsed.data, e), e, configured,
                      hasTransporter, purify))

----------------------------------------------------------------------------
(* Initial state and actions.                                               *)

NoRenderCall == [template |-> [htmlTemplate |-> <<>>, textTemplate |-> <<>>],
                 entries |-> <<>>]
NotRendered == [called |-> FALSE]

\* options of direct calls of the exported emailService.sendEmail
DirectOptions ==
  {[to |-> t] @@ c :
     t \in {<<UserAddress>>, <<UserAddress, EmailUpper>>,
            <<UserAddress, UserAccount>>, <<EmailPadded>>},
     c \in {[html |-> <<"<","p",">">>, text |-> <<"t">>],
            [text |-> <<"t">>],
            [html |-> <<>>, text |-> <<"t">>],
            [template |-> "contact",
             templateData |-> [name |-> NameOk],
             html |-> <<"<","p",">">>],
            [template |-> "contact",
             templateData |-> [name |-> NameOk] @@ ("a(" :> <<"x">>)]}}

Init ==
  /\ env \in Envs
  /\ \E created \in BOOLEAN :
       LET service == initializeTransporter(env, created) IN
       /\ isConfigured = service.isConfigured
       /\ transporter = service.transporter
       /\ serviceLog = service.log
  /\ served = 0
  /\ limiter = [r \in Reqs |-> "none"]
  /\ pc = [r \in Reqs |-> "idle"]
  /\ req = [r \in Reqs |-> NoRequest]
  /\ response = [r \in Reqs |-> NoResponse]
  /\ trace = [r \in Reqs |-> <<>>]
  /\ log = [r \in Reqs |-> <<>>]
  /\ sendCalls = [r \in Reqs |-> <<>>]
  /\ retries = [r \in Reqs |-> 0]
  /\ results = [r \in Reqs |-> <<>>]
  /\ timers = [r \in Reqs |-> <<>>]
  /\ emailSent = [r \in Reqs |-> "none"]
  /\ mailOptions = [r \in Reqs |-> <<>>]
  /\ tmpFile = [r \in Reqs |-> "none"]
  /\ renderCall = NoRenderCall
  /\ renderResult = NotRendered

\* the state after the synchronous code with effect e ran for slot r
Commit(r, e) ==
  /\ pc' = [pc EXCEPT ![r] = e.pc]
  /\ trace' = [trace EXCEPT ![r] = @ \o e.trace]
  /\ log' = [log EXCEPT ![r] = @ \o e.log]
  /\ response' = [response EXCEPT ![r] = e.response]
  /\ retries' = [retries EXCEPT ![r] = e.retries]
  /\ emailSent' = [emailSent EXCEPT ![r] = IF e.ret = "none" THEN @ ELSE e.ret]
  /\ mailOptions' = [mailOptions EXCEPT ![r] =
                       IF "mail" \in DOMAIN e THEN e.mail ELSE @]
  /\ timers' = [timers EXCEPT ![r] =
                  IF "timer" \in DOMAIN e THEN Append(@, e.timer) ELSE @]
  /\ UNCHANGED <<env, isConfigured, transporter, serviceLog, renderCall, renderResult>>

\* requests are taken one at a time: a slot starts only while no other runs
CanStart(r) ==
  /\ pc[r] = "idle"
  /\ served < MaxRequests
  /\ \A q \in Reqs : pc[q] = "idle"

\* POST arrives: diagnosticInfo is captured and rateLimit(request) awaited
POST(r, requests) ==
  /\ \E rq \in requests : req' = [req EXCEPT ![r] = rq]
  /\ served' = served + 1
  /\ Commit(r, Effect("rateLimit", <<"rateLimit">>, <<>>, "none", NoResponse, 0))
  /\ UNCHANGED <<limiter, sendCalls, results, tmpFile>>

Start(r) == CanStart(r) /\ POST(r, Requests)

\* rateLimit(request) settles: rejected, thrown, or passed (the body parse
\* is awaited next)
RateLimitReturn(r) ==
  /\ pc[r] = "rateLimit"
  /\ \/ /\ limiter' = [limiter EXCEPT ![r] = "limited"]
        /\ Commit(r, RateLimited(req[r]))
     \/ /\ limiter' = [limiter EXCEPT ![r] = "threw"]
        /\ Commit(r, HandlerCatch(req[r], "none"))
     \/ /\ limiter' = [limiter EXCEPT ![r] = "ok"]
        /\ Commit(r, Effect("parse", <<"parse">>, <<>>, "none", NoResponse, 0))
  /\ UNCHANGED <<served, req, sendCalls, results, tmpFile>>

\* request.json() / form.parse settles: a rejection goes to the catch block,
\* otherwise the handler runs on to its response or to the transport
ParseFails(rq) == ~rq.body.ok \/ rq.upload = "toolarge"

ParseReturn(r) ==
  /\ pc[r] = "parse"
  /\ \E purify \in {"returns", "throws"} :
     LET rq == req[r]
         e  == IF ParseFails(rq)
               THEN HandlerCatch(rq, "none")
               ELSE HandleBody(rq, env, isConfigured, transporter, purify)
         called == \E i \in 1..Len(e.trace) : e.trace[i] = "sendEmail"
     IN  /\ Commit(r, e)
         /\ sendCalls' = [sendCalls EXCEPT ![r] =
              IF called
              THEN Append(@, HandlerOptions(rq, Schema(rq.kind, rq.body.data).data, env))
              ELSE @]
         /\ tmpFile' = [tmpFile EXCEPT ![r] =
              IF ~ParseFails(rq) /\ HasResume(rq) THEN "written" ELSE @]
  /\ UNCHANGED <<served, limiter, req, results>>

\* some module calls emailService.sendEmail(options) directly
CallSendEmail(r) ==
  /\ CanStart(r)
  /\ \E o \in DirectOptions, purify \in {"returns", "throws"} :
       LET rq == [kind |-> "direct", body |-> [ok |-> TRUE, data |-> <<>>],
                  headers |-> <<>>, upload |-> "none"]
       IN  /\ req' = [req EXCEPT ![r] = rq]
           /\ sendCalls' = [sendCalls EXCEPT ![r] = <<o>>]
           /\ Commit(r, sendEmail(rq, o, env, isConfigured, transporter, purify))
  /\ served' = served + 1
  /\ UNCHANGED <<limiter, results, tmpFile>>

\* the test script calls emailService.testConnection(): verifyConnection
\* returns false at once when the service has no transport, and awaits
\* transporter.verify() otherwise
testConnection(r) ==
  /\ LET rq == [kind |-> "test", body |-> [ok |-> TRUE, data |-> <<>>],
                headers |-> <<>>, upload |-> "none"]
     IN  /\ req' = [req EXCEPT ![r] = rq]
         /\ Commit(r, IF ~isConfigured \/ ~transporter
                      THEN Then(<<"verifyConnection">>, <<>>,
                                AfterVerify(rq, FALSE, env, isConfigured,
                                            transporter, "returns"))
                      ELSE Effect("verify", <<"verifyConnection", "verify">>, <<>>,
                                  "none", NoResponse, 0))
  /\ served' = served + 1
  /\ UNCHANGED <<limiter, sendCalls, results, tmpFile>>

CallTestConnection(r) == CanStart(r) /\ testConnection(r)

\* transporter.verify() settles: verifyConnection logs and returns, and
\* testConnection goes on
VerifyReturn(r) ==
  /\ pc[r] = "verify"
  /\ \/ /\ \E purify \in {"returns", "throws"} :
             Commit(r, Then(<<>>,
                            <<logInfo("Email Service", "Connection verified successfully",
                                      0, "none")>>,
                            AfterVerify(req[r], TRUE, env, isConfigured,
                                        transporter, purify)))
        /\ sendCalls' = [sendCalls EXCEPT ![r] = <<TestOptions(env)>>]
     \/ /\ Commit(r, Then(<<>>,
                          <<logError("Email Connection Verification Error", "none")>>,
                          AfterVerify(req[r], FALSE, env, isConfigured,
                                      transporter, "returns")))
        /\ UNCHANGED sendCalls
  /\ UNCHANGED <<served, limiter, req, results, tmpFile>>

\* transporter.sendMail settles
SendMailReturn(r) ==
  /\ pc[r] = "sendMail"
  /\ \/ /\ results' = [results EXCEPT ![r] = Append(@, "ok")]
        /\ Commit(r, Then(<<>>,
                          <<logInfo("Email Service", "Email sent successfully", 0, "mail")>>,
                          AfterSendEmail(req[r], "true")))
     \/ /\ results' = [results EXCEPT ![r] = Append(@, "fail")]
        /\ Commit(r, RetryOrThrow(req[r], retries[r], TransportError))
  /\ UNCHANGED <<served, limiter, req, sendCalls, tmpFile>>

\* (mutant) the retry count is a field of the service, shared by the calls
\* in flight
DelayElapsed_SharedCount(r) ==
  /\ pc[r] = "delay"
  /\ LET shared == CHOOSE n \in {retries[q] : q \in Reqs} :
                     \A q \in Reqs : retries[q] <= n
     IN  Commit(r, sendWithRetry(req[r], shared + 1, transporter))
  /\ UNCHANGED <<served, limiter, req, sendCalls, results, tmpFile>>

\* the retryDelay timer fires: sendWithRetry(mailOptions, retries + 1)
DelayElapsed(r) ==
  /\ pc[r] = "delay"
  /\ Commit(r, sendWithRetry(req[r], retries[r] + 1, transporter))
  /\ UNCHANGED <<served, limiter, req, sendCalls, results, tmpFile>>

\* writeFile(files.resume.path, '') settles
CleanupReturn(r) ==
  /\ pc[r] = "cleanup"
  /\ \/ /\ tmpFile' = [tmpFile EXCEPT ![r] = "cleared"]
        /\ Commit(r, HandlerSuccess(req[r], "none"))
     \/ /\ UNCHANGED tmpFile
        /\ Commit(r, HandlerCatch(req[r], "none"))
  /\ UNCHANGED <<served, limiter, req, sendCalls, results>>

\* the response has been delivered; the slot is free again
Finish(r) ==
  /\ pc[r] = "done"
  /\ pc' = [pc EXCEPT ![r] = "idle"]
  /\ limiter' = [limiter EXCEPT ![r] = "none"]
  /\ req' = [req EXCEPT ![r] = NoRequest]
  /\ response' = [response EXCEPT ![r] = NoResponse]
  /\ trace' = [trace EXCEPT ![r] = <<>>]
  /\ log' = [log EXCEPT ![r] = <<>>]
  /\ sendCalls' = [sendCalls EXCEPT ![r] = <<>>]
  /\ retries' = [retries EXCEPT ![r] = 0]
  /\ results' = [results EXCEPT ![r] = <<>>]
  /\ timers' = [timers EXCEPT ![r] = <<>>]
  /\ emailSent' = [emailSent EXCEPT ![r] = "none"]
  /\ mailOptions' = [mailOptions EXCEPT ![r] = <<>>]
  /\ tmpFile' = [tmpFile EXCEPT ![r] = "none"]
  /\ UNCHANGED <<env, isConfigured, transporter, serviceLog, served, renderCall,
                 renderResult>>

Next ==
  \E r \in Reqs :
     \/ Start(r)
     \/ RateLimitReturn(r)
     \/ ParseReturn(r)
     \/ CallSendEmail(r)
     \/ CallTestConnection(r)
     \/ VerifyReturn(r)
     \/ SendMailReturn(r)
     \/ DelayElapsed(r)
     \/ CleanupReturn(r)
     \/ Finish(r)

Spec == Init /\ [][Next]_vars

\* A smaller run of the same handlers, for the properties of progress: a
\* production service with all credentials, a development one, and a
\* production one without SMTP_USER; a valid, an invalid and an unparseable
\* body, and the application form with a resume and with too large a file.
LiveEnvs ==
  {e \in Envs :
     /\ "SMTP_USER" \in DOMAIN e => e.SMTP_USER = UserAddress
     /\ \/ DOMAIN e = {"NODE_ENV", "SMTP_HOST", "SMTP_USER", "SMTP_PASSWORD"}
           /\ e.NODE_ENV \in {"production", "development"}
        \/ DOMAIN e = {"NODE_ENV", "SMTP_HOST", "SMTP_PASSWORD"}
           /\ e.NODE_ENV = "production"}

LiveRequests ==
  {rq \in Requests :
     /\ rq.headers = Headers
     /\ \/ ~rq.body.ok /\ rq.kind = "contact"
        \/ rq.body.ok /\ rq.kind = "contact"
           /\ rq.body.data \in {contactBase, Override(contactBase, "name", <<"A">>),
                                Override(contactBase, "honeypot", <<"x">>)}
        \/ rq.body.ok /\ rq.kind = "consultation" /\ rq.body.data = consultationBase
        \/ rq.body.ok /\ rq.kind = "application" /\ rq.body.data = applicationBase}

InitLive == Init /\ env \in LiveEnvs

StartLive(r) == CanStart(r) /\ POST(r, LiveRequests)

NextLive ==
  \E r \in Reqs :
     \/ StartLive(r)
     \/ RateLimitReturn(r)
     \/ ParseReturn(r)
     \/ SendMailReturn(r)
     \/ DelayElapsed(r)
     \/ CleanupReturn(r)
     \/ Finish(r)

\* the awaits a handler can be suspended at
AwaitPoints == {"rateLimit", "parse", "verify", "sendMail", "delay", "cleanup"}

\* the handler of slot r, suspended at an await, is resumed: the awaited
\* promise settled and the handler ran on to its next await or its response
Resumes(r) ==
  /\ pc[r] \in AwaitPoints
  /\ \E p \in (AwaitPoints \cup {"done"}) \ {pc[r]} : pc' = [pc EXCEPT ![r] = p]

\* every promise a handler awaits settles (the limiter, the body parser, the
\* transport and the file system answer or fail; a timer fires), and the
\* runtime then resumes the handler
SpecLive == InitLive /\ [][NextLive]_vars /\ \A r \in Reqs : WF_pc(Resumes(r))

----------------------------------------------------------------------------
(* The handlers with a logger that can fail.  The lines of sendWithRetry    *)
(* after `await sendMail` (console.log of the message id and of the preview *)
(* URL outside production, logInfo) stand inside its try block: when one of *)
(* them throws, control passes to the same catch block as when sendMail     *)
(* rejects.                                                                 *)

LoggingError == "logging after sendMail threw"

\* transporter.sendMail resolved and a line after it threw
PostSendThrows(r) ==
  /\ pc[r] = "sendMail"
  /\ results' = [results EXCEPT ![r] = Append(@, "ok")]
  /\ Commit(r, RetryOrThrow(req[r], retries[r], LoggingError))
  /\ UNCHANGED <<served, limiter, req, sendCalls, tmpFile>>

NextPostSend ==
  \E r \in Reqs :
     \/ StartLive(r)
     \/ RateLimitReturn(r)
     \/ ParseReturn(r)
     \/ SendMailReturn(r)
     \/ PostSendThrows(r)
     \/ DelayElapsed(r)
     \/ CleanupReturn(r)
     \/ Finish(r)

SpecPostSend == InitLive /\ [][NextPostSend]_vars

----------------------------------------------------------------------------
(* Requests handled concurrently: a request is accepted while another is    *)
(* suspended at an await, and the continuations of the two interleave.      *)

\* the slot is free; the other slot may hold a request in flight
Free(r) == pc[r] = "idle" /\ served < MaxRequests

\* the contact form with a valid, an invalid and an unparseable body, and
\* the application form with a resume
ConcurrentRequests ==
  {rq \in LiveRequests :
     /\ rq.kind # "consultation"
     /\ rq.body.ok => "honeypot" \notin DOMAIN rq.body.data
     /\ rq.kind = "application" => rq.upload = "pdf"}

StartConcurrent(r) == Free(r) /\ POST(r, ConcurrentRequests)

CallTestConcurrent(r) == Free(r) /\ testConnection(r)

NextConcurrent ==
  \E r \in Reqs :
     \/ StartConcurrent(r)
     \/ CallTestConcurrent(r)
     \/ RateLimitReturn(r)
     \/ ParseReturn(r)
     \/ VerifyReturn(r)
     \/ SendMailReturn(r)
     \/ DelayElapsed(r)
     \/ CleanupReturn(r)
     \/ Finish(r)

SpecConcurrent == InitLive /\ [][NextConcurrent]_vars

----------------------------------------------------------------------------
(* EmailTemplate.render on its own: a template is constructed, and render   *)
(* is called once with a data object.                                       *)

\* new EmailTemplate(htmlContent, textContent): the contact template and two
\* short ones, the second with a repeated placeholder
RenderTemplates ==
  {contactFormTemplate,
   [htmlTemplate |-> Element(PlaceholderSource(KeyChars("name"))),
    textTemplate |-> <<"H","i"," ">> \o PlaceholderSource(KeyChars("name"))],
   [htmlTemplate |-> PlaceholderSource(KeyChars("ip"))
                       \o PlaceholderSource(KeyChars("name"))
                       \o PlaceholderSource(KeyChars("ip")),
    textTemplate |-> PlaceholderSource(KeyChars("message"))
                       \o <<" ">> \o PlaceholderSource(KeyChars("ip"))]}

\* values of the data: plain text, the empty string, text with dollar
\* signs, text that holds a placeholder
RenderValues ==
  {<<"A","n","n">>, <<>>, <<"$","&">>, <<"$","$","5">>, <<"$","'">>, <<"$","1">>,
   PlaceholderSource(KeyChars("ip")), PlaceholderSource(KeyChars("name"))}

RenderKeys == {"name", "ip", "message", "n.me", "a("}

\* the entries of a data object: up to MaxEntries properties, no key twice
RenderEntries ==
  UNION {{e \in [1..n -> {<<KeyChars(k), v>> : k \in RenderKeys, v \in RenderValues}] :
            \A i, j \in 1..n : i # j => e[i][1] # e[j][1]} : n \in 0..MaxEntries}

InitRender ==
  /\ Init
  /\ env = [NODE_ENV |-> "test"]

ConstructTemplate ==
  /\ renderCall = NoRenderCall
  /\ \E t \in RenderTemplates, e \in RenderEntries :
       renderCall' = [template |-> t, entries |-> e]
  /\ UNCHANGED <<env, isConfigured, transporter, serviceLog, served, limiter, pc,
                 req, response, trace, log, sendCalls, retries, results, timers,
                 emailSent, mailOptions, tmpFile, renderResult>>

Render ==
  /\ renderCall # NoRenderCall
  /\ ~renderResult.called
  /\ renderResult' = [called |-> TRUE]
                   @@ render(renderCall.template, renderCall.entries)
  /\ UNCHANGED <<env, isConfigured, transporter, serviceLog, served, limiter, pc,
                 req, response, trace, log, sendCalls, retries, results, timers,
                 emailSent, mailOptions, tmpFile, renderCall>>

NextRender == ConstructTemplate \/ Render

SpecRender == InitRender /\ [][NextRender]_vars

----------------------------------------------------------------------------
(* Vocabulary of the properties.                                            *)

Count(seq, x) == Cardinality({i \in 1..Len(seq) : seq[i] = x})
Occurs(seq, x) == \E i \in 1..Len(seq) : seq[i] = x

\* slots running a route handler, and slots in which sendEmail was called
HandlerSlots == {r \in Reqs : req[r].kind \in Kinds}
SendSlots == {r \in Reqs : sendCalls[r] # <<>>}

\* the body parsed, and what the handler's schema makes of it
Parsed(r) == req[r].body.ok /\ req[r].upload # "toolarge"
Validated(r) == Schema(req[r].kind, req[r].body.data)
SchemaValid(r) == Parsed(r) /\ Validated(r).success
HoneypotFilled(r) ==
  /\ "honeypot" \in DOMAIN req[r].body.data
  /\ req[r].body.data.honeypot # <<>>

\* some recipient of the slot's sendEmail call fails the strict pattern
BadRecipient(r) ==
  \E i \in 1..Len(sendCalls[r][1].to) : ~emailRegex(sendCalls[r][1].to[i])

\* transport operations and message preparation in a slot's trace
NoTransport(r) == ~Occurs(trace[r], "sendMail") /\ results[r] = <<>>
RetryLogs(r) ==
  SelectSeq(log[r], LAMBDA l : l.message = "Retrying email send")

\* the fields of the form a handler copies into the template data
FormFields(kind) ==
  CASE kind = "contact"      -> {"name", "email", "message"}
    [] kind = "consultation" -> {"name", "email", "company", "industry",
                                 "companySize", "consultationType", "message",
                                 "preferredDate"}
    [] kind = "application"  -> {"name", "email", "phone", "message"}

----------------------------------------------------------------------------
(* C1: in each handler the rate limiter is consulted first: when it rejects *)
(* the request the response is 429 whatever the body is, and nothing else   *)
(* (parse, validation, honeypot check, sendEmail) happens for the request;  *)
(* and any of those steps happens only after the limiter let it pass.       *)
C1_RateLimitFirst ==
  \A r \in HandlerSlots :
     /\ limiter[r] = "limited" =>
          /\ response[r].status = 429
          /\ trace[r] = <<"rateLimit">>
          /\ sendCalls[r] = <<>>
          /\ pc[r] = "done"
     /\ (\E i \in 1..Len(trace[r]) :
           trace[r][i] \in {"parse", "safeParse", "honeypot", "sendEmail"}) =>
          /\ trace[r][1] = "rateLimit"
          /\ limiter[r] = "ok"

\* a rate-limited request whose body would fail validation got 429
C1_Witness ==
  \E r \in HandlerSlots :
     /\ limiter[r] = "limited"
     /\ req[r].body.ok
     /\ ~Validated(r).success
     /\ response[r].status = 429

(* C2: sendEmail is called for a request only after its body passed schema  *)
(* validation and then the honeypot check.                                  *)
C2_SendOnlyAfterChecks ==
  \A r \in HandlerSlots :
     \A i \in 1..Len(trace[r]) :
        trace[r][i] = "sendEmail" =>
          /\ \E j \in 1..(i - 1), k \in 1..(i - 1) :
               /\ j < k
               /\ trace[r][j] = "safeParse"
               /\ trace[r][k] = "honeypot"
          /\ SchemaValid(r)
          /\ ~HoneypotFilled(r)
          /\ ~Truthy(Validated(r).data, "honeypot")

C2_Witness ==
  \E r \in HandlerSlots : Occurs(trace[r], "sendEmail") /\ sendCalls[r] # <<>>

C4_ValidPrecondition(r) ==
  limiter[r] = "ok" /\ pc[r] # "parse" /\ SchemaValid(r) /\ ~HoneypotFilled(r)

C4_OneCallMapped(r) ==
  /\ Len(sendCalls[r]) = 1
  /\ Count(trace[r], "sendEmail") = 1
  /\ \A f \in FormFields(req[r].kind) :
       sendCalls[r][1].templateData[f] = Validated(r).data[f]

C4_Original ==
  \A r \in HandlerSlots :
     (C4_ValidPrecondition(r) /\ pc[r] = "done" /\ ~HasResume(req[r])
        /\ "SMTP_USER" \in DOMAIN env /\ emailRegex(env.SMTP_USER)) =>
        /\ response[r].status = 200
        /\ C4_OneCallMapped(r)

(* C4 (amended): such a request leads to exactly one sendEmail call, whose  *)
(* template data carries the validated form fields; the answer is 500 when  *)
(* that call returned false, and 200 when it returned true (for an          *)
(* application with a resume: when clearing the uploaded file succeeded     *)
(* too, and 500 otherwise).                                                 *)
C4_ValidSubmission ==
  \A r \in HandlerSlots :
     C4_ValidPrecondition(r) =>
        /\ C4_OneCallMapped(r)
        /\ pc[r] = "done" =>
             /\ emailSent[r] \in {"true", "false"}
             /\ response[r].status =
                  IF emailSent[r] = "true"
                     /\ (HasResume(req[r]) => tmpFile[r] = "cleared")
                  THEN 200 ELSE 500

\* a valid contact body delivered by the transport and answered 200
C4_Witness ==
  \E r \in HandlerSlots :
     /\ C4_ValidPrecondition(r)
     /\ req[r].kind = "contact"
     /\ results[r] = <<"ok">>
     /\ response[r].status = 200

(* C5: a sendEmail call with a recipient that fails the strict pattern      *)
(* returns false without any transport operation, in every mode: neither    *)
(* the simulation short-circuit nor rendering, sanitizing or sendMail runs. *)
C5_BadRecipientFails ==
  \A r \in SendSlots :
     BadRecipient(r) =>
        /\ emailSent[r] = "false"
        /\ NoTransport(r)
        /\ \A i \in 1..Len(trace[r]) :
             trace[r][i] \notin {"simulate", "render", "sanitizeHtml", "setTimeout"}

\* in development, one good and one bad recipient: false
C5_Witness ==
  \E r \in SendSlots :
     /\ env.NODE_ENV = "development"
     /\ Len(sendCalls[r][1].to) = 2
     /\ emailRegex(sendCalls[r][1].to[1])
     /\ BadRecipient(r)
     /\ emailSent[r] = "false"

\* sendEmail reached the transport: production, configured, valid recipients
C6_Production(r) ==
  env.NODE_ENV = "production" /\ isConfigured /\ ~BadRecipient(r)

(* C6: in production with a configured transport and valid recipients, when *)
(* the first two sendMail attempts fail a third is made, and when that one  *)
(* succeeds sendEmail has made exactly 3 attempts, returns true and has     *)
(* logged exactly two retry messages (attempts 1 and 2).                    *)
C6_TwoFailuresThenSuccess ==
  \A r \in SendSlots :
     C6_Production(r) =>
        /\ results[r] = <<"fail", "fail">> =>
             /\ emailSent[r] = "none"
             /\ pc[r] \in {"delay", "sendMail"}
        /\ results[r] = <<"fail", "fail", "ok">> =>
             /\ Count(trace[r], "sendMail") = 3
             /\ emailSent[r] = "true"
             /\ Len(RetryLogs(r)) = 2
             /\ RetryLogs(r)[1].attempt = 1
             /\ RetryLogs(r)[2].attempt = 2

C6_Witness ==
  \E r \in SendSlots :
     /\ C6_Production(r)
     /\ results[r] = <<"fail", "fail", "ok">>
     /\ emailSent[r] = "true"

AllFail(seq) == \A i \in 1..Len(seq) : seq[i] = "fail"

(* C7: in production with a configured transport and valid recipients, when *)
(* every sendMail attempt fails sendEmail makes exactly 4 attempts, never   *)
(* more, then returns false, and the handler answers 500.                   *)
C7_RetryExhaustion ==
  \A r \in SendSlots :
     C6_Production(r) =>
        /\ Count(trace[r], "sendMail") <= 4
        /\ Len(results[r]) <= 4
        /\ (results[r] # <<>> /\ AllFail(results[r]) /\ Len(results[r]) < 4) =>
             /\ emailSent[r] = "none"
             /\ pc[r] \in {"delay", "sendMail"}
        /\ (AllFail(results[r]) /\ Len(results[r]) = 4) =>
             /\ Count(trace[r], "sendMail") = 4
             /\ emailSent[r] = "false"
             /\ pc[r] = "done"
             /\ r \in HandlerSlots => response[r].status = 500

C7_Witness ==
  \E r \in HandlerSlots :
     /\ sendCalls[r] # <<>>
     /\ C6_Production(r)
     /\ AllFail(results[r]) /\ Len(results[r]) = 4
     /\ response[r].status = 500

(* C8: a sendEmail call with valid recipients made in development, or while *)
(* the service is unconfigured, returns true without transport call,        *)
(* rendering or sanitizing; sendMail is reached only when the service is    *)
(* configured and the mode is not development.                              *)
C8_Simulation ==
  \A r \in SendSlots :
     /\ (~BadRecipient(r) /\ (env.NODE_ENV = "development" \/ ~isConfigured)) =>
          /\ emailSent[r] = "true"
          /\ NoTransport(r)
          /\ ~Occurs(trace[r], "render")
          /\ ~Occurs(trace[r], "sanitizeHtml")
     /\ Occurs(trace[r], "sendMail") =>
          isConfigured /\ env.NODE_ENV # "development"

\* a configured service in development simulates a templated send
C8_Witness ==
  \E r \in SendSlots :
     /\ env.NODE_ENV = "development"
     /\ isConfigured
     /\ ~BadRecipient(r)
     /\ "template" \in DOMAIN sendCalls[r][1]
     /\ emailSent[r] = "true"

(* C9 (as stated): with a required credential missing in production a send *)
(* does not report success: sendEmail returns false and the handler answers *)
(* 500; success is simulated only outside production.                       *)
C9_Original ==
  \A r \in HandlerSlots :
     (sendCalls[r] # <<>> /\ MissingCredentials(env)
        /\ env.NODE_ENV = "production") =>
        /\ emailSent[r] = "false"
        /\ ~Occurs(trace[r], "simulate")
        /\ pc[r] = "done" => response[r].status = 500

(* C9 (amended): with a required credential missing in production, a send  *)
(* contacts no transport; sendEmail returns false, and the handler answers  *)
(* 500, exactly when a recipient address is invalid (as when SMTP_USER is   *)
(* the missing credential); with valid recipients it returns the simulated  *)
(* success, in production as elsewhere, and the handler answers 200 (unless *)
(* clearing an uploaded resume fails).                                      *)
C9_UnconfiguredProduction ==
  \A r \in SendSlots :
     (MissingCredentials(env) /\ env.NODE_ENV = "production") =>
        /\ ~isConfigured
        /\ NoTransport(r)
        /\ emailSent[r] = IF BadRecipient(r) THEN "false" ELSE "true"
        /\ (r \in HandlerSlots /\ pc[r] = "done") =>
             response[r].status =
               IF ~BadRecipient(r) /\ (HasResume(req[r]) => tmpFile[r] = "cleared")
               THEN 200 ELSE 500

\* production without SMTP_HOST: the contact handler answers 200
C9_Witness ==
  \E r \in HandlerSlots :
     /\ env.NODE_ENV = "production"
     /\ "SMTP_HOST" \notin DOMAIN env
     /\ sendCalls[r] # <<>>
     /\ emailSent[r] = "true"
     /\ response[r].status = 200

(* C10: with any one of SMTP_HOST, SMTP_USER, SMTP_PASSWORD missing outside *)
(* production (SMTP_USER, where set, being the recipient address), a        *)
(* schema-valid submission is answered 200 and no transport is contacted.   *)
C10_OneMissing ==
  /\ Cardinality({"SMTP_HOST", "SMTP_USER", "SMTP_PASSWORD"} \ DOMAIN env) = 1
  /\ "SMTP_USER" \in DOMAIN env => emailRegex(env.SMTP_USER)

C10_DegradesToSuccess ==
  \A r \in HandlerSlots :
     (C4_ValidPrecondition(r) /\ pc[r] = "done"
        /\ C10_OneMissing /\ env.NODE_ENV # "production"
        /\ ~HasResume(req[r])) =>
        /\ response[r].status = 200
        /\ NoTransport(r)

(* C11: in every reachable state isConfigured is true exactly when the      *)
(* transporter is non-null, also when createTransport threw during          *)
(* initialization (then both are absent, and the error was logged).         *)
C11_ConfiguredIffTransporter ==
  /\ isConfigured <=> transporter
  /\ (~MissingCredentials(env) /\ ~isConfigured) =>
       /\ ~transporter
       /\ serviceLog # <<>>
       /\ serviceLog[1].context = "Email Service Initialization Error"

\* createTransport threw with all credentials set, and a send was simulated
C11_Witness ==
  /\ ~MissingCredentials(env)
  /\ ~isConfigured /\ ~transporter
  /\ \E r \in SendSlots : emailSent[r] = "true"

\* the entries sendEmail's catch block logged for the slot's call
ErrorLogs(r) ==
  SelectSeq(log[r], LAMBDA l : l.context = "Email Sending Error")

\* a key of the call's template data makes new RegExp throw
BadTemplateKey(r) ==
  LET o == sendCalls[r][1] IN
  /\ "template" \in DOMAIN o /\ "templateData" \in DOMAIN o
  /\ \E k \in DOMAIN o.templateData : RegExpThrows(PlaceholderSource(KeyChars(k)))

(* C12: a sendEmail call ends by returning true or false, never by an       *)
(* exception reaching the caller: until it returns it is waiting for the    *)
(* transport or the retry timer; an invalid recipient, an exception in      *)
(* rendering or in sanitizing, and a transport failing on every attempt     *)
(* each end in false; false comes with exactly one 'Email Sending Error'    *)
(* entry, which carries the error, and true with none.                      *)
C12_NeverThrows ==
  \A r \in SendSlots :
     /\ emailSent[r] \in {"none", "true", "false"}
     /\ emailSent[r] = "none" =>
          pc[r] \in {"sendMail", "delay"} /\ ErrorLogs(r) = <<>>
     /\ emailSent[r] = "true" => ErrorLogs(r) = <<>>
     /\ emailSent[r] = "false" =>
          /\ Len(ErrorLogs(r)) = 1
          /\ ErrorLogs(r)[1].message \in
               {InvalidAddress, SyntaxError, PurifyError, TransportError}
     /\ BadRecipient(r) =>
          emailSent[r] = "false" /\ ErrorLogs(r)[1].message = InvalidAddress
     /\ (~BadRecipient(r) /\ ~Simulates(env, isConfigured) /\ BadTemplateKey(r)) =>
          emailSent[r] = "false" /\ ErrorLogs(r)[1].message = SyntaxError
     /\ (AllFail(results[r]) /\ Len(results[r]) = maxRetries + 1) =>
          emailSent[r] = "false" /\ ErrorLogs(r)[1].message = TransportError
     /\ (Occurs(trace[r], "sanitizeHtml") /\ DOMAIN mailOptions[r] = {}) =>
          emailSent[r] = "false" /\ ErrorLogs(r)[1].message = PurifyError

\* rendering threw inside a call, which returned false
C12_Witness ==
  \E r \in SendSlots :
     /\ BadTemplateKey(r)
     /\ Occurs(trace[r], "render")
     /\ emailSent[r] = "false"
     /\ ErrorLogs(r)[1].message = SyntaxError

\* slots running testConnection, and whether verifyConnection returned true
TestSlots == {r \in Reqs : req[r].kind = "test"}
Verified(r) ==
  \E i \in 1..Len(log[r]) : log[r][i].message = "Connection verified successfully"

(* C13: testConnection starts with verifyConnection and always ends with a  *)
(* result {success, message}; the canned test message is sent, once, only   *)
(* after verifyConnection returned true; when verification failed or the    *)
(* service has no transport the result is success=false and nothing was     *)
(* sent; otherwise success is what the test send returned.                  *)
C13_TestConnection ==
  \A r \in TestSlots :
     /\ trace[r][1] = "verifyConnection"
     /\ ~isConfigured => ~Occurs(trace[r], "verify")
     /\ Occurs(trace[r], "sendEmail") =>
          /\ Verified(r)
          /\ Count(trace[r], "sendEmail") = 1
          /\ sendCalls[r] = <<TestOptions(env)>>
          /\ \E i, j \in 1..Len(trace[r]) :
               i < j /\ trace[r][i] = "verify" /\ trace[r][j] = "sendEmail"
     /\ ~Verified(r) =>
          /\ sendCalls[r] = <<>>
          /\ ~Occurs(trace[r], "sendEmail")
          /\ NoTransport(r)
     /\ pc[r] = "done" =>
          /\ DOMAIN response[r] = {"status", "success", "message"}
          /\ response[r].success \in BOOLEAN
          /\ IF Verified(r)
             THEN /\ emailSent[r] \in {"true", "false"}
                  /\ response[r].success = (emailSent[r] = "true")
                  /\ response[r].message =
                       IF emailSent[r] = "true" THEN TestWorking ELSE TestSendFailed
             ELSE /\ response[r].success = FALSE
                  /\ response[r].message = TestConnectFailed

\* the connection was verified and the transport accepted the test message
C13_Witness ==
  \E r \in TestSlots :
     /\ Verified(r)
     /\ results[r] = <<"ok">>
     /\ pc[r] = "done"
     /\ response[r].success = TRUE

\* what made the handler of slot r enter its catch block
Cause(r) ==
  CASE limiter[r] = "threw"    -> "rateLimit threw"
    [] limiter[r] = "ok" /\ ~Parsed(r) -> "body parsing failed"
    [] emailSent[r] = "false"  -> ErrorLogs(r)[1].message
    [] emailSent[r] = "true" /\ tmpFile[r] = "written" -> "writeFile failed"
    [] OTHER                   -> "none"

(* C14: every 500 response of a handler is the same: status 500 and a body  *)
(* holding only the fixed 'technical difficulties' message, whichever of    *)
(* the internal causes (the limiter or the body parser throwing, sendEmail  *)
(* returning false for any error, the file clean-up failing) led to it; so  *)
(* two requests that differ in the internal error alone get equal answers.  *)
C14_Uniform500 ==
  \A r \in HandlerSlots :
     response[r].status = 500 =>
        /\ response[r] = [status |-> 500, body |-> [error |-> TechnicalDifficulties]]
        /\ Cause(r) \in {"rateLimit threw", "body parsing failed", "writeFile failed",
                         InvalidAddress, SyntaxError, PurifyError, TransportError}
        /\ Len(log[r]) > 0
        /\ log[r][Len(log[r])] = logError(ErrorContext(req[r].kind), "diagnosticInfo")

\* a 500 answer to a body that could not be parsed
C14_Witness ==
  \E r \in HandlerSlots :
     /\ Cause(r) = "body parsing failed"
     /\ ~req[r].body.ok
     /\ response[r].status = 500

\* the literal text {{key}} stands at position i of s
LiteralAt(s, i, key) ==
  LET p == PlaceholderSource(key) IN
  /\ i + Len(p) - 1 <= Len(s)
  /\ \A j \in 1..Len(p) : s[i + j - 1] = p[j]

\* the statement of substitution: reading the source from position i on,
\* every {{key}} with key a key of the data becomes that key's value as
\* given, and every other character, unknown placeholders included, stays
RECURSIVE Substitute(_, _, _)
Substitute(source, i, entries) ==
  LET at(j) == {k \in 1..Len(entries) : LiteralAt(source, j, entries[k][1])}
      starts == {j \in i..Len(source) : at(j) # {}}
  IN  IF starts = {} THEN SubSeq(source, i, Len(source))
      ELSE LET m == CHOOSE j \in starts : \A k \in starts : j <= k
               e == entries[CHOOSE k \in at(m) : TRUE]
           IN  SubSeq(source, i, m - 1) \o e[2]
               \o Substitute(source, m + Len(PlaceholderSource(e[1])), entries)

\* the keys of the call are identifiers, and no value holds a brace
IdentifierKeys(call) ==
  \A k \in 1..Len(call.entries) :
     \A i \in 1..Len(call.entries[k][1]) : call.entries[k][1][i] \in AlNum
BraceFreeValues(call) ==
  \A k \in 1..Len(call.entries) :
     \A i \in 1..Len(call.entries[k][2]) : call.entries[k][2][i] \notin {"{", "}"}

(* C15: render returns, for the HTML and the text source alike, the source   *)
(* with every {{key}} replaced by the value of that key exactly as given,    *)
(* placeholders of other names verbatim, and raises no error.  Stated here   *)
(* for data whose keys are identifiers and whose values hold no brace, so    *)
(* that neither a key that is no literal pattern nor a value that holds a    *)
(* placeholder plays a part.                                                 *)
C15_RenderSubstitutes ==
  (renderResult.called /\ IdentifierKeys(renderCall) /\ BraceFreeValues(renderCall)) =>
     /\ ~renderResult.threw
     /\ renderResult.html =
          Substitute(renderCall.template.htmlTemplate, 1, renderCall.entries)
     /\ renderResult.text =
          Substitute(renderCall.template.textTemplate, 1, renderCall.entries)

\* the slot's sendEmail call has built its mailOptions
MailBuilt(r) == DOMAIN mailOptions[r] # {}

\* the positions of a call in the slot's trace
Calls(r, name) == {i \in 1..Len(trace[r]) : trace[r][i] = name}

(* C16 is not stated: sanitizeHtml is kept as the application of            *)
(* DOMPurify.sanitize to its argument, see sanitizeHtml above.              *)

(* C17: the html that sendEmail hands to the transport is the output of     *)
(* sanitizeHtml (an absent or empty html is no body and is handed over as   *)
(* it is); with a template and template data the html and text are the      *)
(* rendered ones, whatever html and text the options carry; render comes    *)
(* before sanitizeHtml, and sanitizeHtml before the first sendMail.         *)
C17_SanitizedBeforeSend ==
  \A r \in SendSlots :
     LET o    == sendCalls[r][1]
         mail == mailOptions[r]
         raw  == IF "template" \in DOMAIN o /\ "templateData" \in DOMAIN o
                 THEN LET out == render(Template(o.template),
                                        ObjectEntries(o.templateData))
                      IN  [html |-> out.html, text |-> out.text]
                 ELSE [f \in DOMAIN o \cap {"html", "text"} |-> o[f]]
     IN  /\ Calls(r, "sendMail") # {} => MailBuilt(r)
         /\ MailBuilt(r) =>
              /\ DOMAIN mail \cap {"html", "text"} = DOMAIN raw
              /\ "text" \in DOMAIN raw => mail.text = raw.text
              /\ "html" \in DOMAIN raw =>
                   /\ mail.html.source = raw.html
                   /\ raw.html # <<>> =>
                        /\ mail.html = sanitizeHtml(raw.html)
                        /\ Cardinality(Calls(r, "sanitizeHtml")) = 1
              /\ ("template" \in DOMAIN o /\ "templateData" \in DOMAIN o) =>
                   Cardinality(Calls(r, "render")) = 1
         /\ \A i \in Calls(r, "render"), j \in Calls(r, "sanitizeHtml") : i < j
         /\ \A i \in Calls(r, "sanitizeHtml"), j \in Calls(r, "sendMail") : i < j
         /\ \A i \in Calls(r, "render"), j \in Calls(r, "sendMail") : i < j

\* a call with a template, template data and an html of its own reached the
\* transport with the rendered, sanitized html
C17_Witness ==
  \E r \in SendSlots :
     /\ {"template", "templateData", "html"} \subseteq DOMAIN sendCalls[r][1]
     /\ MailBuilt(r)
     /\ mailOptions[r].html.sanitized
     /\ mailOptions[r].html.source # sendCalls[r][1].html
     /\ results[r] # <<>>

(* C18: within one sendEmail call at most one sendMail attempt is in        *)
(* flight, and one is exactly while the call awaits the transport; every    *)
(* attempt but the first starts right after a wait, every wait follows a    *)
(* failed attempt, and all earlier attempts have failed when one starts;    *)
(* every wait is of retryDelay = 1000 ms whatever the attempt number, and   *)
(* there are as many waits as retries.                                      *)
C18_SequentialRetries ==
  \A r \in SendSlots :
     LET sends == Calls(r, "sendMail")
         waits == Calls(r, "setTimeout")
     IN  /\ Cardinality(sends) - Len(results[r]) = IF pc[r] = "sendMail" THEN 1 ELSE 0
         /\ \A i \in 1..(Len(results[r]) - 1) : results[r][i] = "fail"
         /\ pc[r] \in {"sendMail", "delay"} => AllFail(results[r])
         /\ \A j \in sends :
              (\E i \in sends : i < j) => trace[r][j - 1] = "setTimeout"
         /\ \A j \in waits :
              /\ trace[r][j - 1] = "sendMail"
              /\ j < Len(trace[r]) => trace[r][j + 1] = "sendMail"
         /\ timers[r] = [i \in 1..Cardinality(waits) |-> retryDelay]
         /\ retryDelay = 1000
         /\ Cardinality(waits) = Len(RetryLogs(r))
         /\ sends # {} =>
              Cardinality(sends) = Cardinality(waits) + IF pc[r] = "delay" THEN 0 ELSE 1

\* the third retry is waiting for its timer: three waits of 1000 ms so far
C18_Witness ==
  \E r \in SendSlots :
     /\ pc[r] = "delay"
     /\ results[r] = <<"fail", "fail", "fail">>
     /\ timers[r] = <<1000, 1000, 1000>>

(* C19: a submission with a non-empty honeypot is answered by the honeypot  *)
(* check step: 'Honeypot Triggered' is logged and the answer is 400 with    *)
(* the generic 'Form submission rejected', without validation details.      *)
(* Stated for bodies whose other fields are all valid, so that no other     *)
(* field accounts for a validation answer.                                  *)
C19_HoneypotStep ==
  \A r \in HandlerSlots :
     (/\ limiter[r] = "ok" /\ pc[r] = "done"
      /\ Parsed(r) /\ HoneypotFilled(r)
      /\ Validated(r).errors \subseteq {"honeypot"}) =>
        /\ response[r] = [status |-> 400, body |-> [error |-> Rejected]]
        /\ \E i \in 1..Len(log[r]) : log[r][i].context = "Honeypot Triggered"
        /\ Occurs(trace[r], "honeypot")

\* the contact body of slot r with its address lower-cased and trimmed
NormalizedEmail(r) == Trim(ToLowerCase(req[r].body.data.email))
WithNormalizedEmail(r) == Override(req[r].body.data, "email", NormalizedEmail(r))

(* C20: in the contact handler the address is lower-cased and trimmed       *)
(* before it is validated: a body that is valid once its address is         *)
(* lower-cased and trimmed is accepted, and the address passed on to        *)
(* sendEmail is the lower-cased, trimmed one.                               *)
C20_NormalizedBeforeValidation ==
  \A r \in HandlerSlots :
     (/\ req[r].kind = "contact"
      /\ limiter[r] = "ok" /\ pc[r] = "done"
      /\ Parsed(r) /\ "email" \in DOMAIN req[r].body.data
      /\ contactSchema(WithNormalizedEmail(r)).success) =>
        /\ response[r].status # 400
        /\ Len(sendCalls[r]) = 1
        /\ sendCalls[r][1].templateData.email = NormalizedEmail(r)

\* application requests whose resume part formidable kept
ResumeSlots ==
  {r \in HandlerSlots : req[r].kind = "application" /\ HasResume(req[r])}

(* C21: in the application handler the uploaded resume file is cleared only *)
(* after sendEmail has returned true, by the writeFile that follows every   *)
(* transport call of the request; while sendEmail is running the file is as *)
(* uploaded; no response exists while the clearing is awaited, and a 200    *)
(* answer to a request with a resume finds the file cleared.                *)
C21_ClearedAfterSend ==
  \A r \in ResumeSlots :
     /\ tmpFile[r] = "cleared" =>
          /\ emailSent[r] = "true"
          /\ pc[r] = "done"
          /\ Cardinality(Calls(r, "writeFile")) = 1
          /\ \A i \in Calls(r, "writeFile") :
               \A j \in 1..Len(trace[r]) :
                  trace[r][j] \in {"sendEmail", "render", "sanitizeHtml",
                                  "sendMail", "setTimeout", "simulate"} => j < i
     /\ emailSent[r] # "true" =>
          /\ tmpFile[r] # "cleared"
          /\ Calls(r, "writeFile") = {}
     /\ pc[r] \in {"sendMail", "delay"} => tmpFile[r] = "written"
     /\ pc[r] = "cleanup" =>
          /\ emailSent[r] = "true"
          /\ tmpFile[r] = "written"
          /\ response[r] = NoResponse
     /\ response[r].status = 200 => tmpFile[r] = "cleared"

\* a resume went out on the second transport attempt, the file was cleared
\* and the answer is 200
C21_Witness ==
  \E r \in ResumeSlots :
     /\ results[r] = <<"fail", "ok">>
     /\ tmpFile[r] = "cleared"
     /\ response[r].status = 200

\* the metadata of a handler's log call holds diagnosticInfo: passed as it
\* is, or spread into the object next to validationErrors or email
HoldsDiagnosticInfo(entry) == entry.meta \in {"diagnosticInfo", "validationErrors"}

\* the entries the handler itself logged for slot r (the EmailService logs
\* with other metadata)
HandlerLogs(r) == SelectSeq(log[r], HoldsDiagnosticInfo)

\* once produced, the response of a slot stays until the slot is freed
OneResponse ==
  \A r \in Reqs :
     response[r] # NoResponse =>
        \/ response'[r] = response[r] /\ req'[r] = req[r]
        \/ pc'[r] = "idle"

\* a response is there exactly when the handler has returned; its status is
\* one of four, and the handler logged once, at the level of the answer
ResponseLogged ==
  \A r \in HandlerSlots :
     /\ response[r].status \in {0, 200, 400, 429, 500}
     /\ response[r].status # 0 <=> pc[r] = "done"
     /\ Len(HandlerLogs(r)) = IF pc[r] = "done" THEN 1 ELSE 0
     /\ pc[r] = "done" =>
          /\ log[r][Len(log[r])] = HandlerLogs(r)[1]
          /\ HandlerLogs(r)[1].level =
               IF response[r].status = 200 THEN "info" ELSE "error"

(* C22: every request to a handler ends with one response, of status 200,   *)
(* 400, 429 or 500, whatever the limiter, the body parser, the validator    *)
(* and the transport do; the response is not replaced; the handler's last   *)
(* log entry holds the request's diagnosticInfo, at error level for every   *)
(* status but 200 and at info level for 200.                                *)
C22_AlwaysResponds ==
  /\ []ResponseLogged
  /\ [][OneResponse]_vars
  /\ \A r \in Reqs :
       (req[r].kind \in Kinds /\ pc[r] # "done")
          ~> (pc[r] = "done" /\ response[r].status \in {200, 400, 429, 500})

\* a 500 after the transport failed on every attempt, logged at error level
C22_Witness ==
  \E r \in HandlerSlots :
     /\ Len(results[r]) = maxRetries + 1 /\ AllFail(results[r])
     /\ response[r].status = 500
     /\ HandlerLogs(r)[1].level = "error"

\* the process-wide configuration is left as the constructor made it
ConfigurationKept ==
  /\ env' = env
  /\ isConfigured' = isConfigured
  /\ transporter' = transporter
  /\ serviceLog' = serviceLog

\* what sendEmail returns for slot r once it has returned, from the slot's
\* own call, the configuration and the outcomes of its own attempts
OwnReturn(r) ==
  IF BadRecipient(r) THEN "false"
  ELSE IF Simulates(env, isConfigured) THEN "true"
  ELSE IF results[r] # <<>> /\ results[r][Len(results[r])] = "ok" THEN "true"
  ELSE "false"

\* the status a handler answers with, from the slot's own request, its own
\* limiter decision, what its own sendEmail call returned and its own
\* clean-up
OwnStatus(r) ==
  IF limiter[r] = "limited" THEN 429
  ELSE IF limiter[r] = "threw" \/ ~Parsed(r) THEN 500
  ELSE IF ~Validated(r).success THEN 400
  ELSE IF OwnReturn(r) = "true" /\ (HasResume(req[r]) => tmpFile[r] = "cleared")
  THEN 200 ELSE 500

\* every slot's answer and attempts follow from its own request and outcomes
OwnOutcome ==
  /\ \A r \in SendSlots :
       /\ Len(results[r]) <= maxRetries + 1
       /\ \A i \in 1..(Len(results[r]) - 1) : results[r][i] = "fail"
       /\ Cardinality(Calls(r, "sendMail")) =
            Len(results[r]) + IF pc[r] = "sendMail" THEN 1 ELSE 0
       /\ pc[r] = "sendMail" => retries[r] = Len(results[r])
       /\ pc[r] = "delay" => retries[r] = Len(results[r]) - 1
       /\ (pc[r] \in {"done", "cleanup"} /\ AllFail(results[r])) =>
            Len(results[r]) \in {0, maxRetries + 1}
       /\ pc[r] \in {"done", "cleanup"} => emailSent[r] = OwnReturn(r)
  /\ \A r \in HandlerSlots :
       pc[r] = "done" => response[r].status = OwnStatus(r)
  /\ \A r \in TestSlots :
       pc[r] = "done" =>
          response[r].success = (Verified(r) /\ OwnReturn(r) = "true")

(* C23: whatever the interleaving of the requests in flight, no operation   *)
(* of the EmailService changes the configuration the constructor set, and   *)
(* the answer and the number of transport attempts of each request follow   *)
(* from its own request, its own limiter decision and the outcomes of its   *)
(* own attempts: at most maxRetries + 1 attempts, stopping at the first     *)
(* success, whatever the other request is doing.                            *)
C23_NoInterference ==
  /\ [][ConfigurationKept]_vars
  /\ []OwnOutcome

\* two sends in flight at once, each after failures of its own
C23_Witness ==
  /\ pc["r1"] = "sendMail" /\ results["r1"] = <<"fail", "fail", "fail">>
  /\ pc["r2"] = "delay" /\ results["r2"] = <<"fail">>

(* C24: within one sendEmail call no sendMail attempt follows one that      *)
(* succeeded, so the transport accepts the message at most once; every      *)
(* retry wait follows an attempt that failed; and all attempts carry the    *)
(* mailOptions built once by the call.                                      *)
C24_DeliveredAtMostOnce ==
  \A r \in SendSlots :
     /\ Count(results[r], "ok") <= 1
     /\ \A i \in 1..(Len(results[r]) - 1) : results[r][i] = "fail"
     /\ pc[r] \in {"sendMail", "delay"} => AllFail(results[r])
     /\ Calls(r, "sendMail") # {} => MailBuilt(r)

\* no value of the call holds a dollar sign
DollarFreeValues(call) ==
  \A k \in 1..Len(call.entries) :
     \A i \in 1..Len(call.entries[k][2]) : call.entries[k][2][i] # "$"

(* C25: render returns the source with all placeholders substituted at      *)
(* once: text inserted as the value of one key is not substituted by        *)
(* another key, so a value that holds {{ip}} appears as it is.  Stated here *)
(* for data whose keys are identifiers and whose values hold no dollar      *)
(* sign, so that replacement patterns play no part.                         *)
C25_SimultaneousSubstitution ==
  (renderResult.called /\ IdentifierKeys(renderCall) /\ DollarFreeValues(renderCall)) =>
     /\ ~renderResult.threw
     /\ renderResult.html =
          Substitute(renderCall.template.htmlTemplate, 1, renderCall.entries)
     /\ renderResult.text =
          Substitute(renderCall.template.textTemplate, 1, renderCall.entries)

\* contact submissions for which sendEmail was called
ContactSends == {r \in HandlerSlots : req[r].kind = "contact" /\ sendCalls[r] # <<>>}

(* C26: the name, message and email that the contact handler places in the  *)
(* template data, after the schema's transforms, are within the schema's    *)
(* bounds: name of at least 2 characters, message of 10 to 1000, email      *)
(* matching the strict pattern.                                             *)
C26_TemplateDataInBounds ==
  \A r \in ContactSends :
     LET data == sendCalls[r][1].templateData IN
     /\ Len(data.name) >= 2
     /\ Len(data.message) >= 10 /\ Len(data.message) <= 1000
     /\ emailRegex(data.email)

\* the placeholders that occur in contactFormTemplate
ContactPlaceholders ==
  {"name", "email", "subject", "message", "timestamp", "ip", "userAgent"}

\* some placeholder of the contact template stands in s
HoldsPlaceholder(s) ==
  \E k \in ContactPlaceholders : \E i \in 1..Len(s) : LiteralAt(s, i, KeyChars(k))

(* C27: for a contact submission that is dispatched, every placeholder of   *)
(* the contact template is a key of the template data the handler built,    *)
(* and the html and text handed to the transport hold no placeholder of the *)
(* template.                                                                *)
C27_NoPlaceholderLeft ==
  \A r \in ContactSends :
     /\ ContactPlaceholders \subseteq DOMAIN sendCalls[r][1].templateData
     /\ MailBuilt(r) =>
          /\ ~HoldsPlaceholder(mailOptions[r].html.source)
          /\ ~HoldsPlaceholder(mailOptions[r].text)

====
